---------------------------- MODULE Spec2Model ----------------------------
(***************************************************************************)
(* header-abi-linker (header_abi_linker.cpp): the concurrent aggregation   *)
(* of per-unit ABI dumps into one merged graph, and the export filter that *)
(* forwards the merged declarations to the output dumper.                  *)
(***************************************************************************)
EXTENDS Integers, Sequences, FiniteSets, TLC

\* ------------------------------------------------------------------------
\* Program constant and model bounds
\* ------------------------------------------------------------------------

\* static constexpr std::size_t kSourcesPerBatchThread = 7;
kSourcesPerBatchThread == 7

\* Largest number of dump files on the command line.
MaxDumps == 14

\* Largest value std::thread::hardware_concurrency() returns.
MaxHw == 2

\* Longest dump file list that holds no full batch beyond the first.
ShortList == 3

\* Largest number of lookups made on the matchers taken alone.
MaxLookups == 4

\* ------------------------------------------------------------------------
\* Strings are sequences of one-character strings, so that the regular
\* expression search can look at their characters.
\* ------------------------------------------------------------------------

k_f1 == <<"f", "1">>
k_f2 == <<"f", "2">>
k_g_a == <<"g", "_", "a">>
k_R == <<"R">>
k_E == <<"E">>
k_int == <<"i", "n", "t">>

p_g_star == <<"g", "_", "*">>
p_f_star == <<"f", "*">>

\* The symbol keys of the exported-symbol maps, in std::map (byte) order.
SortedKeys == << k_f1, k_f2, k_g_a >>

\* [A-Za-z0-9_]: the characters the regex assertion \b calls word characters.
WordChars == {"f", "g", "a", "b", "o", "r", "x", "z", "i", "n", "t", "R",
              "E", "1", "2", "_"}

\* Source files (provenance).  "" is a declaration without a source file.
HdrA == "inc/a.h"
HdrB == "src/b.h"
NoSrc == ""

\* ------------------------------------------------------------------------
\* Entity categories, in the order LinkTypes / LinkFunctions /
\* LinkGlobalVars walk them.
\* ------------------------------------------------------------------------

Categories == << "RecordTypes", "EnumTypes", "FunctionTypes", "BuiltinTypes",
                 "PointerTypes", "RvalueReferenceTypes",
                 "LvalueReferenceTypes", "ArrayTypes", "QualifiedTypes",
                 "Functions", "GlobalVariables" >>

NumTypeCategories == Len(Categories) - 2
FunctionsCat == Len(Categories) - 1
GlobalVarsCat == Len(Categories)

\* A declaration of a graph: <<category, linker set key, source file>>.
DeclCat(d) == d[1]
DeclKey(d) == d[2]
GetSourceFile(d) == d[3]
GraphKey(d) == <<d[1], d[2]>>

\* The elements of one category of a reader (reader->GetFunctions(), ...).
GetElements(reader, cat) == {d \in reader : DeclCat(d) = cat}

\* The keys of a graph.
GraphKeys(g) == {GraphKey(d) : d \in g}

\* A graph holds one descriptor per (category, key).
IsGraph(g) == \A d1, d2 \in g : GraphKey(d1) = GraphKey(d2) => d1 = d2

\* TextFormatToIRReader::MergeGraphs(addend): the per-category union by key of
\* the graph and the addend.  When both hold a key, either descriptor may be
\* kept.  The set of graphs the merge may produce.
MergeGraphs(dst, addend) ==
  LET all == dst \cup addend
      clash == {d \in all : \E e \in all : e # d /\ GraphKey(e) = GraphKey(d)}
  IN {(all \ clash) \cup kept :
        kept \in {c \in SUBSET clash :
                    IsGraph(c) /\ GraphKeys(c) = GraphKeys(clash)}}

\* abi_util::CollectAllExportedHeaders(dirs): the header files below the
\* export include directories.
CollectAllExportedHeaders(dirs) ==
  {h \in {HdrA} : "inc" \in dirs}


\* ------------------------------------------------------------------------
\* Wildcard matcher: std::regex over the version script's glob patterns
\* ------------------------------------------------------------------------

\* abi_util::FindAndReplace(str, "\\*", ".*"): every '*' of the string
\* becomes the two characters '.', '*'; every other character is kept.
RECURSIVE FindAndReplace(_)
FindAndReplace(str) ==
  IF str = <<>> THEN <<>>
  ELSE (IF Head(str) = "*" THEN <<".", "*">> ELSE <<Head(str)>>)
       \o FindAndReplace(Tail(str))

\* The std::regex CreateRegexMatchExprFromSet builds: the alternatives
\* "(\bP\b)" joined with "|", kept as the set of the bodies P.  The empty
\* set gives std::regex(), which matches nothing.
CreateRegexMatchExprFromSet(link_set) ==
  {FindAndReplace(pattern) : pattern \in link_set}

\* One regex atom against one character: '.' matches any character, any
\* other atom matches itself.
AtomMatches(atom, c) == atom = "." \/ atom = c

\* The lengths of the prefixes of s the regex body re matches ('*' is the
\* quantifier of the atom before it).
RECURSIVE MatchLengths(_, _)
MatchLengths(re, s) ==
  IF re = <<>> THEN {0}
  ELSE IF Len(re) >= 2 /\ re[2] = "*"
  THEN MatchLengths(Tail(Tail(re)), s)
       \cup (IF s # <<>> /\ AtomMatches(re[1], s[1])
             THEN {n + 1 : n \in MatchLengths(re, Tail(s))}
             ELSE {})
  ELSE IF s # <<>> /\ AtomMatches(re[1], s[1])
  THEN {n + 1 : n \in MatchLengths(Tail(re), Tail(s))}
  ELSE {}

\* \b at offset p of s (0 .. Len(s)): exactly one of the characters before
\* and after the offset is a word character.
WordBoundary(s, p) ==
  LET before == p >= 1 /\ s[p] \in WordChars
      after == p < Len(s) /\ s[p + 1] \in WordChars
  IN before # after

\* std::regex_search(symbol, vs_regex): some alternative \bP\b matches at
\* some offset of the symbol.
RegexSearch(symbol, vs_regex) ==
  \E re \in vs_regex :
    \E p \in 0..Len(symbol) :
      /\ WordBoundary(symbol, p)
      /\ \E n \in MatchLengths(re, SubSeq(symbol, p + 1, Len(symbol))) :
           WordBoundary(symbol, p + n)

\* QueryRegexMatches without the test for a symbol already matched.
QueryRegexMatches_NoFind(regex_matched_link_set, vs_regex, symbol) ==
  IF RegexSearch(symbol, vs_regex)
  THEN [ret |-> TRUE, matched |-> regex_matched_link_set \cup {symbol}]
  ELSE [ret |-> FALSE, matched |-> regex_matched_link_set]

\* QueryRegexMatches(regex_matched_link_set, vs_regex, symbol): the value
\* returned and the set afterwards.
QueryRegexMatches(regex_matched_link_set, vs_regex, symbol) ==
  IF symbol \in regex_matched_link_set
  THEN [ret |-> FALSE, matched |-> regex_matched_link_set]
  ELSE IF RegexSearch(symbol, vs_regex)
  THEN [ret |-> TRUE, matched |-> regex_matched_link_set \cup {symbol}]
  ELSE [ret |-> FALSE, matched |-> regex_matched_link_set]


\* ------------------------------------------------------------------------
\* Inputs: the dump files, the .so file / version script, the environment
\* ------------------------------------------------------------------------

\* Decoded contents of the per-unit dump files.
Dump_f1 == { <<"Functions", k_f1, HdrA>> }
Dump_f2 == { <<"Functions", k_f2, HdrA>>,
             <<"GlobalVariables", k_g_a, HdrA>>,
             <<"RecordTypes", k_R, HdrA>>,
             <<"EnumTypes", k_E, HdrB>> }
Dump_b == { <<"Functions", k_f1, HdrB>>,
            <<"Functions", k_g_a, HdrA>>,
            <<"RecordTypes", k_R, HdrB>>,
            <<"BuiltinTypes", k_int, NoSrc>> }

\* The dump file lists tried: a short list of dumps, repeated up to the
\* number of files on the command line.
DumpPatterns == { <<Dump_f1, Dump_f2>>, <<Dump_f2, Dump_b>>,
                  <<Dump_b, Dump_f2>>, <<Dump_b>> }

\* The numbers of dump files tried: the short lists, and the counts at
\* which the number of batches or of threads changes.
DumpCounts ==
  {n \in 1..MaxDumps :
     \/ n <= ShortList
     \/ n > kSourcesPerBatchThread /\ n % kSourcesPerBatchThread <= 1}

DumpFiles(pattern, n) ==
  [i \in 1..n |-> pattern[((i - 1) % Len(pattern)) + 1]]

\* The -so and -v options tried, as <<so_file, version_script>>.
ExportFiles == { <<"", "">>, <<"liba.so", "">>, <<"libb.so", "">>,
                 <<"", "a.map">>, <<"", "b.map">>, <<"liba.so", "a.map">> }

\* The -I and -no-filter options tried, as
\* <<exported_header_dirs, no_filter>>.
FilterOptions == { <<{}, FALSE>>, <<{"inc"}, FALSE>>, <<{"inc"}, TRUE>> }

\* so_parser->GetFunctions() / GetGlobVars() of the .so files.
SoFunctions(file) == IF file = "liba.so" THEN {k_f1, k_f2} ELSE {k_f1}
SoGlobVars(file) == IF file = "liba.so" THEN {} ELSE {k_g_a}

\* version_script_parser.GetFunctions() / GetGlobVars() /
\* GetFunctionRegexs() / GetGlobVarRegexs() of the version scripts.
VsFunctions(file) == {k_f1}
VsGlobVars(file) == {}
VsFunctionRegexs(file) == IF file = "a.map" THEN {p_g_star} ELSE {p_f_star}
VsGlobVarRegexs(file) == IF file = "a.map" THEN {} ELSE {p_g_star}

\* The worker ids: 0 is the calling thread, the others are spawned threads.
Workers == 0 .. (MaxDumps \div kSourcesPerBatchThread)

Min(a, b) == IF a < b THEN a ELSE b

VARIABLES
  dump_files,                   \* the dump files, by their decoded contents
  exported_header_dirs,         \* -I
  version_script,               \* -v
  so_file,                      \* -so
  no_filter,                    \* -no-filter
  exported_headers_,
  function_decl_map_,
  globvar_decl_map_,
  functions_regex_matched_set,
  functions_vs_regex_,
  globvars_regex_matched_set,
  globvars_vs_regex_,
  ir_dumper,                    \* the calls made on the IRDumper, in order
  greader,                      \* the shared merged graph
  cnt,                          \* std::atomic<std::size_t> cnt
  greader_lock,                 \* the worker holding the mutex, or -1
  threads,                      \* the spawned threads
  local_reader,                 \* each worker's local graph
  wpc,                          \* each worker's position
  wi,                           \* each worker's i (the batch it claimed)
  link_cat,                     \* the category LinkDecl is walking
  link_seen,                    \* the keys of it LinkDecl has visited
  pc,                           \* the calling thread's position
  exit_code,                    \* the process's exit status, once exited
  errs,                         \* the diagnostics written to llvm::errs()
  claimed,                      \* history: <<worker, i>> of every fetch_add
  read_log,                     \* history: <<worker, i, file>> of ReadDump
  lookups                       \* history: the calls of QueryRegexMatches,
                                \* <<category, symbol, value returned>>

inputs == << dump_files, version_script, so_file, no_filter >>
members == << exported_headers_, function_decl_map_, globvar_decl_map_,
              functions_vs_regex_, globvars_vs_regex_ >>
matched_sets == << functions_regex_matched_set, globvars_regex_matched_set,
                   lookups >>
aggregation == << greader, cnt, greader_lock, threads, local_reader, wpc, wi,
                  claimed, read_log >>
linking == << link_cat, link_seen >>

vars == << dump_files, exported_header_dirs, version_script, so_file,
           no_filter, exported_headers_,
           function_decl_map_, globvar_decl_map_,
           functions_regex_matched_set, functions_vs_regex_,
           globvars_regex_matched_set, globvars_vs_regex_, ir_dumper,
           greader, cnt, greader_lock, threads, local_reader, wpc, wi,
           link_cat, link_seen, pc, exit_code, errs, claimed, read_log,
           lookups >>

NoOwner == -1

\* The state main() starts in: the command line is parsed, nothing has run.
Init ==
  /\ \E pattern \in DumpPatterns, n \in DumpCounts :
       dump_files = DumpFiles(pattern, n)
  /\ \E files \in ExportFiles :
       so_file = files[1] /\ version_script = files[2]
  /\ \E options \in FilterOptions :
       exported_header_dirs = options[1] /\ no_filter = options[2]
  /\ exported_headers_ = {}
  /\ function_decl_map_ = {}
  /\ globvar_decl_map_ = {}
  /\ functions_regex_matched_set = {}
  /\ functions_vs_regex_ = {}
  /\ globvars_regex_matched_set = {}
  /\ globvars_vs_regex_ = {}
  /\ ir_dumper = <<>>
  /\ greader = {}
  /\ cnt = 0
  /\ greader_lock = NoOwner
  /\ threads = {}
  /\ local_reader = [w \in Workers |-> {}]
  /\ wpc = [w \in Workers |-> "unused"]
  /\ wi = [w \in Workers |-> 0]
  /\ link_cat = 1
  /\ link_seen = {}
  /\ pc = "main"
  /\ exit_code = 0
  /\ errs = {}
  /\ claimed = {}
  /\ read_log = {}
  /\ lookups = <<>>

\* The process ends with the given status after writing the diagnostics.
Exit(status, diagnostics) ==
  /\ pc' = "exited"
  /\ exit_code' = status
  /\ errs' = errs \cup diagnostics

\* Main with the export include directories kept under -no-filter.
Main_KeepsDirs ==
  /\ pc = "main"
  /\ IF so_file = "" /\ version_script = ""
     THEN Exit(-1, {"One of -so or -v needs to be specified"})
     ELSE /\ pc' = "LinkAndDump"
          /\ UNCHANGED << exit_code, errs >>
  /\ UNCHANGED << inputs, exported_header_dirs, members, matched_sets,
                  ir_dumper, aggregation, linking >>

\* main(), up to the construction of the linker: neither -so nor -v is an
\* error; -no-filter clears the export include directories.
Main ==
  /\ pc = "main"
  /\ IF so_file = "" /\ version_script = ""
     THEN /\ Exit(-1, {"One of -so or -v needs to be specified"})
          /\ UNCHANGED exported_header_dirs
     ELSE /\ exported_header_dirs' =
               (IF no_filter THEN {} ELSE exported_header_dirs)
          /\ pc' = "LinkAndDump"
          /\ UNCHANGED << exit_code, errs >>
  /\ UNCHANGED << inputs, members, matched_sets, ir_dumper, aggregation,
                  linking >>


\* The calls on the IRDumper are kept as
\* <<method, category, key, source file, result>>.
SinkCall(op, cat, key, src, ok) == << op, cat, key, src, ok >>

\* LinkAndDump, lines 197-207: ParseSoFile (after collecting the exported
\* headers) when -so is given, ParseVersionScriptFiles otherwise.  Either
\* parse may fail on its file.
ParseExports ==
  /\ pc = "LinkAndDump"
  /\ IF so_file # ""
     THEN /\ exported_headers_' =
               CollectAllExportedHeaders(exported_header_dirs)
          /\ \E parsed \in BOOLEAN :
               IF parsed
               THEN /\ function_decl_map_' = SoFunctions(so_file)
                    /\ globvar_decl_map_' = SoGlobVars(so_file)
                    /\ pc' = "AddElfSymbols"
                    /\ UNCHANGED << exit_code, errs >>
               ELSE /\ Exit(-1, {"Couldn't parse so file",
                                 "Failed to link and dump elements"})
                    /\ UNCHANGED << function_decl_map_, globvar_decl_map_ >>
          /\ UNCHANGED << functions_vs_regex_, globvars_vs_regex_ >>
     ELSE /\ \E parsed \in BOOLEAN :
               IF parsed
               THEN /\ function_decl_map_' = VsFunctions(version_script)
                    /\ globvar_decl_map_' = VsGlobVars(version_script)
                    /\ functions_vs_regex_' = CreateRegexMatchExprFromSet(
                                                VsFunctionRegexs(version_script))
                    /\ globvars_vs_regex_' = CreateRegexMatchExprFromSet(
                                               VsGlobVarRegexs(version_script))
                    /\ pc' = "AddElfSymbols"
                    /\ UNCHANGED << exit_code, errs >>
               ELSE /\ Exit(-1, {"Failed to parse version script",
                                 "Failed to parse stub files for exported symbols",
                                 "Failed to link and dump elements"})
                    /\ UNCHANGED << function_decl_map_, globvar_decl_map_,
                                    functions_vs_regex_, globvars_vs_regex_ >>
          /\ UNCHANGED exported_headers_
  /\ UNCHANGED << inputs, exported_header_dirs, matched_sets, ir_dumper,
                  aggregation, linking >>

\* The symbols HeaderAbiLinker::AddElfSymbols walks: function_decl_map_,
\* then globvar_decl_map_, each in key order.
ElfSymbols ==
  [i \in 1..Len(SelectSeq(SortedKeys, LAMBDA k : k \in function_decl_map_))
     |-> << "Functions",
            SelectSeq(SortedKeys, LAMBDA k : k \in function_decl_map_)[i] >>]
  \o
  [i \in 1..Len(SelectSeq(SortedKeys, LAMBDA k : k \in globvar_decl_map_))
     |-> << "GlobalVariables",
            SelectSeq(SortedKeys, LAMBDA k : k \in globvar_decl_map_)[i] >>]

\* ::AddElfSymbols over both maps: the calls made when the dumper rejects
\* call number failed (0: it rejects none).  The first rejected call is the
\* last one made.
AddElfSymbolsCalls(failed) ==
  [i \in 1..(IF failed = 0 THEN Len(ElfSymbols) ELSE failed) |->
     SinkCall("AddElfSymbolMessageIR", ElfSymbols[i][1], ElfSymbols[i][2],
              NoSrc, i # failed)]

\* What LinkAndDump does with the value AddElfSymbols returns (line 211):
\* the position it goes on to.
AfterAddElfSymbols(ok) == "spawn"

\* LinkAndDump, lines 208-211: create the dumper and write the exported
\* symbols to it.
AddElfSymbols ==
  /\ pc = "AddElfSymbols"
  /\ \E failed \in 0..Len(ElfSymbols) :
       /\ ir_dumper' = AddElfSymbolsCalls(failed)
       /\ pc' = AfterAddElfSymbols(failed = 0)
  /\ UNCHANGED << inputs, exported_header_dirs, members, matched_sets,
                  aggregation, linking, exit_code, errs >>

\* LinkAndDump, lines 217-220: num_threads, given what
\* std::thread::hardware_concurrency() returns.
NumThreads(max_threads) ==
  IF kSourcesPerBatchThread < Len(dump_files)
  THEN Min(Len(dump_files) \div kSourcesPerBatchThread, max_threads)
  ELSE 0

\* LinkAndDump, lines 221-229: spawn threads 1 .. num_threads - 1, then run
\* DeDuplicateAbiElementsThread on the calling thread too.
SpawnThreads ==
  /\ pc = "spawn"
  /\ \E max_threads \in 0..MaxHw :
       /\ threads' = 1..(NumThreads(max_threads) - 1)
       /\ wpc' = [w \in Workers |->
                    IF w = 0 \/ w \in 1..(NumThreads(max_threads) - 1)
                    THEN "fetch_add" ELSE "unused"]
  /\ pc' = "aggregate"
  /\ UNCHANGED << inputs, exported_header_dirs, members, matched_sets,
                  ir_dumper, greader, cnt, greader_lock, local_reader, wi,
                  claimed, read_log, linking, exit_code, errs >>

\* ------------------------------------------------------------------------
\* DeDuplicateAbiElementsThread
\* ------------------------------------------------------------------------

\* FetchAdd advancing the cursor by two batches.
FetchAdd_SkipsBatch(w) ==
  /\ pc = "aggregate"
  /\ wpc[w] = "fetch_add"
  /\ cnt' = cnt + 2 * kSourcesPerBatchThread
  /\ wi' = [wi EXCEPT ![w] = cnt]
  /\ claimed' = claimed \cup {<<w, cnt>>}
  /\ wpc' = [wpc EXCEPT ![w] =
               IF cnt >= Len(dump_files) THEN "lock" ELSE "read_batch"]
  /\ UNCHANGED << inputs, exported_header_dirs, members, matched_sets,
                  ir_dumper, greader, greader_lock, threads, local_reader,
                  read_log, linking, pc, exit_code, errs >>

\* Lines 173-177: claim a batch with fetch_add; leave the loop when the
\* value read is past the last dump file.
FetchAdd(w) ==
  /\ pc = "aggregate"
  /\ wpc[w] = "fetch_add"
  /\ cnt' = cnt + kSourcesPerBatchThread
  /\ wi' = [wi EXCEPT ![w] = cnt]
  /\ claimed' = claimed \cup {<<w, cnt>>}
  /\ wpc' = [wpc EXCEPT ![w] =
               IF cnt >= Len(dump_files) THEN "lock" ELSE "read_batch"]
  /\ UNCHANGED << inputs, exported_header_dirs, members, matched_sets,
                  ir_dumper, greader, greader_lock, threads, local_reader,
                  read_log, linking, pc, exit_code, errs >>

\* The for loop of lines 178-189 for the batch claimed at i: it starts at
\* begin_it, the first dump file, and stops before begin_it + end.
BatchBegin(i) == 0

\* BatchEnd with the last file of every batch left out.
BatchEnd_OffByOne(i) ==
  Min(i + kSourcesPerBatchThread, Len(dump_files)) - 1

BatchEnd(i) == Min(i + kSourcesPerBatchThread, Len(dump_files))

\* The dump files (0-based) the loop reads for the batch claimed at i.
BatchFiles(i) == BatchBegin(i) .. (BatchEnd(i) - 1)

\* The local graphs the loop may leave after merging the dumps
\* first .. last (0-based), in order, into one of the graphs gs.
RECURSIVE MergeDumps(_, _, _)
MergeDumps(gs, first, last) ==
  IF first > last THEN gs
  ELSE MergeDumps(UNION {MergeGraphs(g, dump_files[first + 1]) : g \in gs},
                  first + 1, last)

\* ReadBatch with a failed ReadDump reported and the file skipped, the
\* process going on.
ReadBatch_SkipsFailure(w) ==
  /\ pc = "aggregate"
  /\ wpc[w] = "read_batch"
  /\ \E read_ok \in BOOLEAN :
       /\ IF read_ok
          THEN /\ \E g \in MergeDumps({local_reader[w]}, BatchBegin(wi[w]),
                                      BatchEnd(wi[w]) - 1) :
                    local_reader' = [local_reader EXCEPT ![w] = g]
               /\ UNCHANGED errs
          ELSE /\ errs' = errs \cup {"ReadDump failed"}
               /\ UNCHANGED local_reader
       /\ read_log' = read_log
                        \cup {<<w, wi[w], f>> : f \in BatchFiles(wi[w])}
       /\ wpc' = [wpc EXCEPT ![w] = "fetch_add"]
       /\ UNCHANGED << pc, exit_code >>
  /\ UNCHANGED << inputs, exported_header_dirs, members, matched_sets,
                  ir_dumper, greader, cnt, greader_lock, threads, wi, claimed,
                  linking >>

\* Lines 178-189: read and merge every file of the batch; a ReadDump that
\* fails ends the process with exit(1).
ReadBatch(w) ==
  /\ pc = "aggregate"
  /\ wpc[w] = "read_batch"
  /\ \E read_ok \in BOOLEAN :
       IF read_ok
       THEN /\ \E g \in MergeDumps({local_reader[w]}, BatchBegin(wi[w]),
                                   BatchEnd(wi[w]) - 1) :
                 local_reader' = [local_reader EXCEPT ![w] = g]
            /\ read_log' = read_log
                             \cup {<<w, wi[w], f>> : f \in BatchFiles(wi[w])}
            /\ wpc' = [wpc EXCEPT ![w] = "fetch_add"]
            /\ UNCHANGED << pc, exit_code, errs >>
       ELSE /\ Exit(1, {"ReadDump failed"})
            /\ UNCHANGED << local_reader, read_log, wpc >>
  /\ UNCHANGED << inputs, exported_header_dirs, members, matched_sets,
                  ir_dumper, greader, cnt, greader_lock, threads, wi, claimed,
                  linking >>

\* Lock without waiting for the mutex to be free.
Lock_NoWait(w) ==
  /\ pc = "aggregate"
  /\ wpc[w] = "lock"
  /\ greader_lock' = w
  /\ wpc' = [wpc EXCEPT ![w] = "merge"]
  /\ UNCHANGED << inputs, exported_header_dirs, members, matched_sets,
                  ir_dumper, greader, cnt, threads, local_reader, wi, claimed,
                  read_log, linking, pc, exit_code, errs >>

\* Line 191: std::lock_guard takes the mutex.
Lock(w) ==
  /\ pc = "aggregate"
  /\ wpc[w] = "lock"
  /\ greader_lock = NoOwner
  /\ greader_lock' = w
  /\ wpc' = [wpc EXCEPT ![w] = "merge"]
  /\ UNCHANGED << inputs, exported_header_dirs, members, matched_sets,
                  ir_dumper, greader, cnt, threads, local_reader, wi, claimed,
                  read_log, linking, pc, exit_code, errs >>

\* MergeIntoGreader with the shared graph overwritten by the local graph
\* instead of merged with it.
MergeIntoGreader_Overwrite(w) ==
  /\ pc = "aggregate"
  /\ wpc[w] = "merge"
  /\ greader' = local_reader[w]
  /\ wpc' = [wpc EXCEPT ![w] = "unlock"]
  /\ UNCHANGED << inputs, exported_header_dirs, members, matched_sets,
                  ir_dumper, cnt, greader_lock, threads, local_reader, wi,
                  claimed, read_log, linking, pc, exit_code, errs >>

\* Line 192: greader->MergeGraphs(*local_reader).
MergeIntoGreader(w) ==
  /\ pc = "aggregate"
  /\ wpc[w] = "merge"
  /\ greader' \in MergeGraphs(greader, local_reader[w])
  /\ wpc' = [wpc EXCEPT ![w] = "unlock"]
  /\ UNCHANGED << inputs, exported_header_dirs, members, matched_sets,
                  ir_dumper, cnt, greader_lock, threads, local_reader, wi,
                  claimed, read_log, linking, pc, exit_code, errs >>

\* Unlock with the worker returning while the mutex stays taken.
Unlock_KeepsMutex(w) ==
  /\ pc = "aggregate"
  /\ wpc[w] = "unlock"
  /\ wpc' = [wpc EXCEPT ![w] = "done"]
  /\ UNCHANGED << inputs, exported_header_dirs, members, matched_sets,
                  ir_dumper, greader, cnt, greader_lock, threads,
                  local_reader, wi, claimed, read_log, linking, pc,
                  exit_code, errs >>

\* Line 193: the lock_guard releases the mutex and the worker returns.
Unlock(w) ==
  /\ pc = "aggregate"
  /\ wpc[w] = "unlock"
  /\ greader_lock' = NoOwner
  /\ wpc' = [wpc EXCEPT ![w] = "done"]
  /\ UNCHANGED << inputs, exported_header_dirs, members, matched_sets,
                  ir_dumper, greader, cnt, threads, local_reader, wi, claimed,
                  read_log, linking, pc, exit_code, errs >>

\* Join without the join of the spawned threads.
Join_NoJoin ==
  /\ pc = "aggregate"
  /\ wpc[0] = "done"
  /\ pc' = "LinkTypes"
  /\ link_cat' = 1
  /\ link_seen' = {}
  /\ UNCHANGED << inputs, exported_header_dirs, members, matched_sets,
                  ir_dumper, aggregation, exit_code, errs >>

\* Lines 229-233: the calling thread's own run has returned and every
\* spawned thread is joined.
Join ==
  /\ pc = "aggregate"
  /\ wpc[0] = "done"
  /\ \A t \in threads : wpc[t] = "done"
  /\ pc' = "LinkTypes"
  /\ link_cat' = 1
  /\ link_seen' = {}
  /\ UNCHANGED << inputs, exported_header_dirs, members, matched_sets,
                  ir_dumper, aggregation, exit_code, errs >>


\* ------------------------------------------------------------------------
\* The export filter: LinkDecl over every category, then Dump
\* ------------------------------------------------------------------------

\* InExportedHeaders without the test for an empty source file.
InExportedHeaders_NoEmptyTest(element) ==
  ~ ( /\ exported_headers_ # {}
      /\ GetSourceFile(element) \notin exported_headers_ )

\* LinkDecl, lines 291-294: the element is not skipped for its source file.
InExportedHeaders(element) ==
  ~ ( /\ exported_headers_ # {}
      /\ GetSourceFile(element) # NoSrc
      /\ GetSourceFile(element) \notin exported_headers_ )

\* The symbol filters: the value returned, and the matched sets and the
\* history of lookups afterwards.
FilterResult(ret, fn_matched, gv_matched, looked_up) ==
  [ret |-> ret, functions |-> fn_matched, globvars |-> gv_matched,
   lookups |-> looked_up]

\* LinkTypes' no_filter lambda.
NoFilter(linker_set_key) ==
  FilterResult(TRUE, functions_regex_matched_set, globvars_regex_matched_set,
               lookups)

\* The lookup of a function key in the functions' matcher.
QueryFunctions(linker_set_key) ==
  LET q == QueryRegexMatches(functions_regex_matched_set, functions_vs_regex_,
                             linker_set_key)
  IN FilterResult(q.ret, q.matched, globvars_regex_matched_set,
                  Append(lookups, <<"Functions", linker_set_key, q.ret>>))

\* The lookup of a global variable key in the global variables' matcher.
QueryGlobVars(linker_set_key) ==
  LET q == QueryRegexMatches(globvars_regex_matched_set, globvars_vs_regex_,
                             linker_set_key)
  IN FilterResult(q.ret, functions_regex_matched_set, q.matched,
                  Append(lookups, <<"GlobalVariables", linker_set_key, q.ret>>))

\* FunctionsSymbolFilter looking the key up in the global variables' map.
FunctionsSymbolFilter_WrongMap(linker_set_key) ==
  IF linker_set_key \in globvar_decl_map_
  THEN NoFilter(linker_set_key)
  ELSE QueryFunctions(linker_set_key)

\* FunctionsSymbolFilter without the lookup in the exact map.
FunctionsSymbolFilter_RegexOnly(linker_set_key) ==
  QueryFunctions(linker_set_key)

\* LinkFunctions' symbol_filter lambda (lines 326-331).
FunctionsSymbolFilter(linker_set_key) ==
  IF linker_set_key \in function_decl_map_
  THEN NoFilter(linker_set_key)
  ELSE QueryFunctions(linker_set_key)

\* GlobalVarsSymbolFilter querying the functions' matcher.
GlobalVarsSymbolFilter_WrongRegex(linker_set_key) ==
  IF linker_set_key \in globvar_decl_map_
  THEN NoFilter(linker_set_key)
  ELSE QueryFunctions(linker_set_key)

\* LinkGlobalVars' symbol_filter lambda (lines 339-344).
GlobalVarsSymbolFilter(linker_set_key) ==
  IF linker_set_key \in globvar_decl_map_
  THEN NoFilter(linker_set_key)
  ELSE QueryGlobVars(linker_set_key)

\* The call symbol_filter(key) of LinkDecl, line 296, for the lambda it
\* was given.
CallSymbolFilter(symbol_filter, linker_set_key) ==
  CASE symbol_filter = "LinkFunctions" ->
         FunctionsSymbolFilter(linker_set_key)
    [] symbol_filter = "LinkGlobalVars" ->
         GlobalVarsSymbolFilter(linker_set_key)
    [] OTHER -> NoFilter(linker_set_key)

\* AfterCategory with the global variables linked before the functions.
AfterCategory_GlobalVarsFirst(cat) ==
  IF cat < NumTypeCategories THEN "LinkTypes"
  ELSE IF cat = NumTypeCategories THEN "LinkGlobalVars"
  ELSE IF cat = GlobalVarsCat THEN "LinkFunctions"
  ELSE "Dump"

\* The position after the LinkDecl of category cat has returned true.
AfterCategory(cat) ==
  IF cat < NumTypeCategories THEN "LinkTypes"
  ELSE IF cat = NumTypeCategories THEN "LinkFunctions"
  ELSE IF cat = FunctionsCat THEN "LinkGlobalVars"
  ELSE "Dump"

\* LinkDecl going on to the next element after a rejection.
ContinuesOnRejection == FALSE

\* What LinkDecl does when the dumper rejects an element (lines 299-302):
\* TRUE when it returns false at once.
ReturnsOnRejection == TRUE

\* One step of LinkDecl (lines 286-304) over category cat of greader: the
\* next element is skipped for its source file, skipped by the symbol
\* filter, or handed to AddLinkableMessageIR; after the last element
\* LinkDecl returns true.  A rejected element makes LinkDecl, its caller,
\* LinkAndDump and main return failure.
LinkDecl(cat, symbol_filter) ==
  LET todo == {e \in GetElements(greader, Categories[cat]) :
                 DeclKey(e) \notin link_seen}
  IN
  IF todo = {}
  THEN /\ link_cat' = cat + 1
       /\ link_seen' = {}
       /\ pc' = AfterCategory(cat)
       /\ UNCHANGED << matched_sets, ir_dumper, exit_code, errs >>
  ELSE \E element \in todo :
         IF ~ InExportedHeaders(element)
         THEN /\ link_seen' = link_seen \cup {DeclKey(element)}
              /\ UNCHANGED << link_cat, matched_sets, ir_dumper, pc,
                              exit_code, errs >>
         ELSE LET f == CallSymbolFilter(symbol_filter, DeclKey(element))
              IN /\ functions_regex_matched_set' = f.functions
                 /\ globvars_regex_matched_set' = f.globvars
                 /\ lookups' = f.lookups
                 /\ IF ~ f.ret
                    THEN /\ link_seen' = link_seen \cup {DeclKey(element)}
                         /\ UNCHANGED << link_cat, ir_dumper, pc, exit_code,
                                         errs >>
                    ELSE \E added \in BOOLEAN :
                           /\ ir_dumper' = Append(ir_dumper,
                                SinkCall("AddLinkableMessageIR",
                                         DeclCat(element), DeclKey(element),
                                         GetSourceFile(element), added))
                           /\ IF added \/ ~ ReturnsOnRejection
                              THEN /\ link_seen' =
                                        link_seen \cup {DeclKey(element)}
                                   /\ UNCHANGED << link_cat, pc, exit_code,
                                                   errs >>
                              ELSE /\ Exit(-1,
                                        {"Failed to add element to linked dump",
                                         "Failed to link elements",
                                         "Failed to link and dump elements"})
                                   /\ UNCHANGED << link_cat, link_seen >>

\* LinkTypes: the nine type categories, each under no_filter.
LinkTypes ==
  /\ pc = "LinkTypes"
  /\ LinkDecl(link_cat, "LinkTypes")
  /\ UNCHANGED << inputs, exported_header_dirs, members, aggregation >>

LinkFunctions ==
  /\ pc = "LinkFunctions"
  /\ LinkDecl(FunctionsCat, "LinkFunctions")
  /\ UNCHANGED << inputs, exported_header_dirs, members, aggregation >>

LinkGlobalVars ==
  /\ pc = "LinkGlobalVars"
  /\ LinkDecl(GlobalVarsCat, "LinkGlobalVars")
  /\ UNCHANGED << inputs, exported_header_dirs, members, aggregation >>

\* LinkAndDump, lines 241-245, and main's return: Dump() writes the linked
\* dump; the process ends with 0 when it succeeds.
Dump ==
  /\ pc = "Dump"
  /\ \E dumped \in BOOLEAN :
       /\ ir_dumper' = Append(ir_dumper,
                              SinkCall("Dump", "", <<>>, NoSrc, dumped))
       /\ IF dumped
          THEN Exit(0, {})
          ELSE Exit(-1, {"Serialization to ostream failed",
                         "Failed to link and dump elements"})
  /\ UNCHANGED << inputs, exported_header_dirs, members, matched_sets,
                  aggregation, linking >>

Next ==
  \/ Main
  \/ ParseExports
  \/ AddElfSymbols
  \/ SpawnThreads
  \/ \E w \in Workers : FetchAdd(w)
  \/ \E w \in Workers : ReadBatch(w)
  \/ \E w \in Workers : Lock(w)
  \/ \E w \in Workers : MergeIntoGreader(w)
  \/ \E w \in Workers : Unlock(w)
  \/ Join
  \/ LinkTypes
  \/ LinkFunctions
  \/ LinkGlobalVars
  \/ Dump

Spec == Init /\ [][Next]_vars

\* ------------------------------------------------------------------------
\* The matchers taken alone: any sequence of lookups on the two regexes a
\* version script compiles to
\* ------------------------------------------------------------------------

InitMatcher ==
  /\ dump_files = <<>>
  /\ exported_header_dirs = {}
  /\ version_script = "b.map"
  /\ so_file = ""
  /\ no_filter = FALSE
  /\ exported_headers_ = {}
  /\ function_decl_map_ = {}
  /\ globvar_decl_map_ = {}
  /\ functions_regex_matched_set = {}
  /\ \E link_set \in SUBSET {p_g_star, p_f_star} :
       functions_vs_regex_ = CreateRegexMatchExprFromSet(link_set)
  /\ globvars_regex_matched_set = {}
  /\ \E link_set \in SUBSET {p_g_star, p_f_star} :
       globvars_vs_regex_ = CreateRegexMatchExprFromSet(link_set)
  /\ ir_dumper = <<>>
  /\ greader = {}
  /\ cnt = 0
  /\ greader_lock = NoOwner
  /\ threads = {}
  /\ local_reader = [w \in Workers |-> {}]
  /\ wpc = [w \in Workers |-> "unused"]
  /\ wi = [w \in Workers |-> 0]
  /\ link_cat = 1
  /\ link_seen = {}
  /\ pc = "QueryRegexMatches"
  /\ exit_code = 0
  /\ errs = {}
  /\ claimed = {}
  /\ read_log = {}
  /\ lookups = <<>>

\* One call of a matcher, QueryRegexMatches on the functions' or on the
\* global variables' set and regex, given what it returns and leaves.
Lookup(query) ==
  /\ pc = "QueryRegexMatches"
  /\ Len(lookups) < MaxLookups
  /\ functions_regex_matched_set' = query.functions
  /\ globvars_regex_matched_set' = query.globvars
  /\ lookups' = query.lookups
  /\ UNCHANGED << inputs, exported_header_dirs, members, ir_dumper,
                  aggregation, linking, pc, exit_code, errs >>

LookupFunction ==
  \E symbol \in {k_f1, k_f2, k_g_a} : Lookup(QueryFunctions(symbol))

LookupGlobVar ==
  \E symbol \in {k_f1, k_f2, k_g_a} : Lookup(QueryGlobVars(symbol))

NextMatcher == LookupFunction \/ LookupGlobVar

SpecMatcher == InitMatcher /\ [][NextMatcher]_vars


\* ------------------------------------------------------------------------
\* Properties
\* ------------------------------------------------------------------------

\* Every declaration of every dump file.
AllDumpDecls == UNION {dump_files[i] : i \in 1..Len(dump_files)}

\* Every worker has merged its local graph and returned, and no ReadDump
\* has failed.
AggregationFinished ==
  /\ wpc[0] = "done"
  /\ \A t \in threads : wpc[t] = "done"

\* C1: for every number of workers and every interleaving, once all
\* decodes have succeeded and aggregation has finished, the keys of the
\* shared merged graph are, per category, exactly the keys of all the input
\* dumps, and the graph holds exactly one descriptor for each of them,
\* however many dumps contain the key.
C1_UnionCompleteness ==
  AggregationFinished =>
    /\ GraphKeys(greader) = GraphKeys(AllDumpDecls)
    /\ greader \subseteq AllDumpDecls
    /\ Cardinality(greader) = Cardinality(GraphKeys(AllDumpDecls))

\* C1's case: two workers have both read batches of a list of fourteen
\* copies of one dump and have merged into the shared graph.
C1_Witness ==
  /\ AggregationFinished
  /\ threads # {}
  /\ \A w \in {0, 1} : \E r \in read_log : r[1] = w
  /\ \A i \in 1..Len(dump_files) : dump_files[i] = Dump_b
  /\ greader = Dump_b


\* The calls of one method made on the dumper so far.
SinkCalls(op) == {n \in 1..Len(ir_dumper) : ir_dumper[n][1] = op}

\* The declarations handed to AddLinkableMessageIR so far.
Forwarded ==
  {<<ir_dumper[n][2], ir_dumper[n][3], ir_dumper[n][4]>> :
     n \in SinkCalls("AddLinkableMessageIR")}

ForwardedKeys == {GraphKey(d) : d \in Forwarded}

\* LinkDecl has looked at the element of greader: its category is walked,
\* or it is the one being walked and its key is among those seen.
Visited(element) ==
  LET at == CHOOSE c \in 1..Len(Categories) :
              Categories[c] = DeclCat(element)
  IN /\ pc \notin {"main", "LinkAndDump", "AddElfSymbols", "spawn",
                   "aggregate"}
     /\ AggregationFinished
     /\ \/ at < link_cat
        \/ at = link_cat /\ DeclKey(element) \in link_seen

\* The three LinkDecl passes have all returned true.
LinkCompleted ==
  pc = "Dump" \/ (pc = "exited" /\ SinkCalls("Dump") # {})

\* The graphs a run with the calling thread as the only worker may build:
\* it claims every batch in turn, reads each, and merges its local graph
\* into the empty shared graph.
RECURSIVE SingleWorkerLocals(_, _)
SingleWorkerLocals(gs, i) ==
  IF i >= Len(dump_files) THEN gs
  ELSE SingleWorkerLocals(MergeDumps(gs, BatchBegin(i), BatchEnd(i) - 1),
                          i + kSourcesPerBatchThread)

SingleWorkerGraphs ==
  UNION {MergeGraphs({}, g) : g \in SingleWorkerLocals({{}}, 0)}

\* The keys the filter forwards from a merged graph when the dumper
\* rejects nothing.
PassesSymbolFilter(d) ==
  CASE DeclCat(d) = "Functions" ->
         \/ DeclKey(d) \in function_decl_map_
         \/ RegexSearch(DeclKey(d), functions_vs_regex_)
    [] DeclCat(d) = "GlobalVariables" ->
         \/ DeclKey(d) \in globvar_decl_map_
         \/ RegexSearch(DeclKey(d), globvars_vs_regex_)
    [] OTHER -> TRUE

PassesProvenanceFilter(d) ==
  \/ exported_headers_ = {}
  \/ GetSourceFile(d) = NoSrc
  \/ GetSourceFile(d) \in exported_headers_

FilteredKeys(g) ==
  {GraphKey(d) : d \in {e \in g : PassesProvenanceFilter(e)
                                   /\ PassesSymbolFilter(e)}}

\* C2 as stated: whatever descriptors the dumps carry for a key, the keys
\* forwarded by a run whose link completes are those a run with one worker
\* forwards, whichever graph that run builds.
C2_SameKeysForEveryWorkerCount ==
  LinkCompleted =>
    \A g \in SingleWorkerGraphs : ForwardedKeys = FilteredKeys(g)

\* C2, amended: when the dumps carry one descriptor per key, the keys
\* forwarded by a run whose link completes are the same for every worker
\* count and every interleaving: those a run with one worker forwards.
C2_SameKeysForEquivalentDescriptors ==
  (LinkCompleted /\ IsGraph(AllDumpDecls)) =>
    \A g \in SingleWorkerGraphs : ForwardedKeys = FilteredKeys(g)

\* C2's case: a run with a spawned thread, both workers having read
\* batches, has completed its link, forwarding some keys and filtering
\* others out.
C2_Witness ==
  /\ LinkCompleted
  /\ IsGraph(AllDumpDecls)
  /\ threads # {}
  /\ \A w \in {0, 1} : \E r \in read_log : r[1] = w
  /\ ForwardedKeys # {}
  /\ ForwardedKeys # GraphKeys(greader)

\* C3: a ReadDump that fails, in a spawned thread or in the calling thread,
\* ends the process with a non-zero exit status; Dump is not called and no
\* declaration of the merged graph is handed to the dumper.
C3_DecodeFailureIsFatal ==
  "ReadDump failed" \in errs =>
    /\ pc = "exited"
    /\ exit_code # 0
    /\ SinkCalls("Dump") = {}
    /\ SinkCalls("AddLinkableMessageIR") = {}

\* C3's case: the ReadDump of a spawned thread has failed while the calling
\* thread was waiting for the mutex.
C3_Witness ==
  /\ "ReadDump failed" \in errs
  /\ 1 \in threads
  /\ wpc[1] = "read_batch"
  /\ wpc[0] = "lock"
  /\ exit_code = 1

\* C4: a declaration with a source file is handed to the dumper only if the
\* exported header set is empty or holds the file; a type LinkDecl has
\* looked at is handed to the dumper if and only if the exported header set
\* is empty, or the type has no source file, or the set holds its file.
C4_ProvenanceFilter ==
  /\ \A d \in Forwarded :
       GetSourceFile(d) # NoSrc =>
         exported_headers_ = {} \/ GetSourceFile(d) \in exported_headers_
  /\ \A d \in greader :
       (Visited(d) /\ DeclCat(d) \notin {"Functions", "GlobalVariables"}) =>
         (d \in Forwarded <=>
            \/ exported_headers_ = {}
            \/ GetSourceFile(d) = NoSrc
            \/ GetSourceFile(d) \in exported_headers_)

\* C4's case: with the exported header set {inc/a.h}, the types of inc/a.h,
\* of src/b.h and of no file have been walked: the first and the last were
\* handed to the dumper, the second was not.
C4_Witness ==
  /\ exported_headers_ = {HdrA}
  /\ pc = "LinkFunctions"
  /\ {<<"RecordTypes", k_R, HdrA>>, <<"EnumTypes", k_E, HdrB>>,
      <<"BuiltinTypes", k_int, NoSrc>>} \subseteq greader
  /\ <<"RecordTypes", k_R, HdrA>> \in Forwarded
  /\ <<"BuiltinTypes", k_int, NoSrc>> \in Forwarded
  /\ <<"EnumTypes", k_E, HdrB>> \notin Forwarded


\* C5: a function or a global variable is handed to the dumper only if its
\* key is in the exact map of its category or the regex of its category
\* finds a match in it; with no pattern for the category (as always with
\* -so), only if its key is in the exact map.
C5_SymbolFilter ==
  \A d \in Forwarded :
    /\ DeclCat(d) = "Functions" =>
         /\ \/ DeclKey(d) \in function_decl_map_
            \/ RegexSearch(DeclKey(d), functions_vs_regex_)
         /\ (so_file # "" \/ VsFunctionRegexs(version_script) = {}) =>
              DeclKey(d) \in function_decl_map_
    /\ DeclCat(d) = "GlobalVariables" =>
         /\ \/ DeclKey(d) \in globvar_decl_map_
            \/ RegexSearch(DeclKey(d), globvars_vs_regex_)
         /\ (so_file # "" \/ VsGlobVarRegexs(version_script) = {}) =>
              DeclKey(d) \in globvar_decl_map_

\* C5's case: under a.map (exact f1, function pattern g_*, no global
\* variable pattern) the link has completed over functions f1, f2, g_a and
\* the global variable g_a: f1 went to the dumper by the exact map, the
\* function g_a by the pattern, f2 and the global variable g_a did not go.
C5_Witness ==
  /\ LinkCompleted
  /\ so_file = "" /\ version_script = "a.map"
  /\ {k_f1, k_f2, k_g_a} \subseteq {DeclKey(d) : d \in GetElements(greader, "Functions")}
  /\ <<"GlobalVariables", k_g_a>> \in GraphKeys(greader)
  /\ {k \in {k_f1, k_f2, k_g_a} : <<"Functions", k>> \in ForwardedKeys}
       = {k_f1, k_g_a}
  /\ <<"GlobalVariables", k_g_a>> \notin ForwardedKeys

\* C6 as stated: once the link has completed, every function and every
\* global variable of the merged graph whose key is in the exact map has
\* been handed to the dumper.
C6_ExactMatchAlwaysLinked ==
  LinkCompleted =>
    \A d \in greader :
      /\ (DeclCat(d) = "Functions" /\ DeclKey(d) \in function_decl_map_)
           => d \in Forwarded
      /\ (DeclCat(d) = "GlobalVariables" /\ DeclKey(d) \in globvar_decl_map_)
           => d \in Forwarded

\* C6, amended: every function or global variable of the merged graph that
\* LinkDecl has looked at, whose key is in the exact map and whose source
\* file passes the exported header test, has been handed to the dumper,
\* whatever the regex and the matched set of its category hold.
C6_ExactMatchLinkedWhenExported ==
  \A d \in greader :
    (Visited(d) /\ (exported_headers_ = {} \/ GetSourceFile(d) = NoSrc
                    \/ GetSourceFile(d) \in exported_headers_)) =>
      /\ (DeclCat(d) = "Functions" /\ DeclKey(d) \in function_decl_map_)
           => d \in Forwarded
      /\ (DeclCat(d) = "GlobalVariables" /\ DeclKey(d) \in globvar_decl_map_)
           => d \in Forwarded

\* C6's case: f1 is in the exact map and the functions' regex would match
\* it too; f2 was matched by the regex and recorded before f1 was handed to
\* the dumper.
C6_Witness ==
  /\ k_f1 \in function_decl_map_
  /\ RegexSearch(k_f1, functions_vs_regex_)
  /\ k_f2 \in functions_regex_matched_set
  /\ Len(ir_dumper) > 0
  /\ ir_dumper[Len(ir_dumper)][1] = "AddLinkableMessageIR"
  /\ ir_dumper[Len(ir_dumper)][2] = "Functions"
  /\ ir_dumper[Len(ir_dumper)][3] = k_f1
  /\ k_f1 \in link_seen

\* The number of declarations of a key the dumper has accepted.
Entries(cat, key) ==
  Cardinality({n \in SinkCalls("AddLinkableMessageIR") :
                 /\ ir_dumper[n][2] = cat
                 /\ ir_dumper[n][3] = key
                 /\ ir_dumper[n][5]})

\* The keys of the functions and global variables of the dumps and maps.
SymbolKeys == {SortedKeys[n] : n \in 1..Len(SortedKeys)}

\* C7: the dumper never holds more than one declaration of a function or
\* global variable key; the linked dump of a run that succeeds holds
\* exactly one for a key that is in some input dump and whose merged
\* declaration passes the exported header test and the symbol filter, and
\* none for any other key.
C7_OneEntryPerLinkedKey ==
  \A cat \in {"Functions", "GlobalVariables"}, key \in SymbolKeys :
    /\ Cardinality({n \in SinkCalls("AddLinkableMessageIR") :
                      ir_dumper[n][2] = cat /\ ir_dumper[n][3] = key}) <= 1
    /\ (pc = "exited" /\ exit_code = 0) =>
         Entries(cat, key) =
           (IF /\ \E d \in AllDumpDecls : GraphKey(d) = <<cat, key>>
               /\ \E d \in greader :
                    /\ GraphKey(d) = <<cat, key>>
                    /\ PassesProvenanceFilter(d)
                    /\ PassesSymbolFilter(d)
            THEN 1 ELSE 0)

\* C7's case: the dumps {f1}, {f2}, {f1} under a version script exporting
\* f1 and the pattern g_*: the run has succeeded with one f1 and no f2.
C7_Witness ==
  /\ pc = "exited" /\ exit_code = 0
  /\ Len(dump_files) = 3
  /\ dump_files[1] = Dump_f1 /\ dump_files[2] = Dump_f2
  /\ dump_files[3] = Dump_f1
  /\ so_file = "" /\ version_script = "a.map"
  /\ Entries("Functions", k_f1) = 1
  /\ Entries("Functions", k_f2) = 0


\* C8: over any sequence of lookups, a matcher returns true at most once
\* for a key: every lookup after the one that recorded the key returns
\* false; and each category's matched set holds exactly the keys its own
\* lookups returned true for, whatever the other category's lookups did.
C8_WildcardMemoization ==
  /\ \A i, j \in 1..Len(lookups) :
       (i < j /\ lookups[i][1] = lookups[j][1]
              /\ lookups[i][2] = lookups[j][2] /\ lookups[i][3])
         => ~ lookups[j][3]
  /\ functions_regex_matched_set =
       {lookups[i][2] : i \in {n \in 1..Len(lookups) :
                                 lookups[n][1] = "Functions" /\ lookups[n][3]}}
  /\ globvars_regex_matched_set =
       {lookups[i][2] : i \in {n \in 1..Len(lookups) :
                                 lookups[n][1] = "GlobalVariables"
                                 /\ lookups[n][3]}}

\* C8's case: g_a is looked up twice as a function, true then false, and
\* then as a global variable, true again.
C8_Witness ==
  /\ Len(lookups) >= 3
  /\ lookups[1] = <<"Functions", k_g_a, TRUE>>
  /\ lookups[2] = <<"Functions", k_g_a, FALSE>>
  /\ lookups[3] = <<"GlobalVariables", k_g_a, TRUE>>

\* C9: when a declaration of the merged graph is handed to the dumper,
\* every symbol of the exact maps has been handed to it before, as a symbol
\* record.
C9_SymbolsBeforeDeclarations ==
  \A l \in SinkCalls("AddLinkableMessageIR") :
    \A n \in 1..Len(ElfSymbols) :
      \E m \in SinkCalls("AddElfSymbolMessageIR") :
        /\ m < l
        /\ <<ir_dumper[m][2], ir_dumper[m][3]>> = ElfSymbols[n]

\* C10: once the dumper has rejected a symbol record or a declaration,
\* Dump is not called, and a process that ends after any failed write ends
\* with a non-zero exit status.
C10_WriteFailureFailsRun ==
  /\ (\E n \in 1..Len(ir_dumper) :
        ir_dumper[n][1] # "Dump" /\ ~ ir_dumper[n][5])
       => SinkCalls("Dump") = {}
  /\ ((\E n \in 1..Len(ir_dumper) : ~ ir_dumper[n][5]) /\ pc = "exited")
       => exit_code # 0


\* C11: a run given neither -so nor -v, and a run given both, ends with a
\* non-zero exit status and a diagnostic as soon as it leaves main's test of
\* the options: no export is resolved, no dump file is claimed or read,
\* nothing is handed to the dumper.
C11_ExactlyOneExportSource ==
  (((so_file = "") = (version_script = "")) /\ pc # "main") =>
    /\ pc = "exited"
    /\ exit_code # 0
    /\ errs # {}
    /\ function_decl_map_ = {}
    /\ globvar_decl_map_ = {}
    /\ claimed = {}
    /\ read_log = {}
    /\ greader = {}
    /\ ir_dumper = <<>>


\* LinkAndDump has gone past the parse of the .so file or version script.
PastParseExports ==
  /\ pc \notin {"main", "LinkAndDump"}
  /\ ~ (so_file = "" /\ version_script = "")

p_f == <<"f">>
p_g_dot_a == <<"g", ".", "a">>
p_star_a == <<"*", "a">>

\* The patterns a version script may hold.
GlobPatterns == {p_g_star, p_f_star, p_f, p_g_dot_a, p_star_a}

k_f == <<"f">>
k_xg_a == <<"x", "g", "_", "a">>
k_x_dot_g_a == <<"x", ".", "g", "_", "a">>
k_g_dot_a == <<"g", ".", "a">>

\* The keys looked up.
GlobKeys == {k_f, k_f1, k_g_a, k_xg_a, k_x_dot_g_a, k_g_dot_a}

\* Most patterns of one version script.
MaxPatterns == 2

InitGlob ==
  /\ dump_files = <<>>
  /\ exported_header_dirs = {}
  /\ version_script = "b.map"
  /\ so_file = ""
  /\ no_filter = FALSE
  /\ exported_headers_ = {}
  /\ function_decl_map_ = {}
  /\ globvar_decl_map_ = {}
  /\ functions_regex_matched_set = {}
  /\ \E link_set \in {ps \in SUBSET GlobPatterns :
                        Cardinality(ps) <= MaxPatterns} :
       functions_vs_regex_ = CreateRegexMatchExprFromSet(link_set)
  /\ globvars_regex_matched_set = {}
  /\ globvars_vs_regex_ = CreateRegexMatchExprFromSet({})
  /\ ir_dumper = <<>>
  /\ greader = {}
  /\ cnt = 0
  /\ greader_lock = NoOwner
  /\ threads = {}
  /\ local_reader = [w \in Workers |-> {}]
  /\ wpc = [w \in Workers |-> "unused"]
  /\ wi = [w \in Workers |-> 0]
  /\ link_cat = 1
  /\ link_seen = {}
  /\ pc = "QueryRegexMatches"
  /\ exit_code = 0
  /\ errs = {}
  /\ claimed = {}
  /\ read_log = {}
  /\ lookups = <<>>

\* LinkFunctions' lookup of a key in the compiled matcher.
LookupKey ==
  \E symbol \in GlobKeys : Lookup(QueryFunctions(symbol))

NextGlob == LookupKey

SpecGlob == InitGlob /\ [][NextGlob]_vars

\* The patterns the functions' regex was compiled from.
CompiledPatterns ==
  {pattern \in GlobPatterns : FindAndReplace(pattern) \in functions_vs_regex_}

\* s is the pattern with each '*' replaced by some substring, every other
\* character of the pattern standing for itself.
RECURSIVE GlobEquals(_, _)
GlobEquals(pattern, s) ==
  IF pattern = <<>> THEN s = <<>>
  ELSE IF Head(pattern) = "*"
  THEN \E n \in 0..Len(s) :
         GlobEquals(Tail(pattern), SubSeq(s, n + 1, Len(s)))
  ELSE /\ s # <<>>
       /\ Head(s) = Head(pattern)
       /\ GlobEquals(Tail(pattern), Tail(s))

\* Some part of the key between two word boundaries is some pattern with
\* its '*'s replaced.
LiteralAccepts(link_set, key) ==
  \E pattern \in link_set :
    \E p, q \in 0..Len(key) :
      /\ p <= q
      /\ WordBoundary(key, p)
      /\ WordBoundary(key, q)
      /\ GlobEquals(pattern, SubSeq(key, p + 1, q))

\* The first lookup of its key.
FirstLookup(i) ==
  \A j \in 1..(i - 1) : lookups[j][2] # lookups[i][2]

\* C13: the compiled matcher accepts a key, at its first lookup, exactly
\* when a part of the key between word boundaries equals some pattern with
\* each '*' replaced by a substring, every other pattern character being
\* taken literally.
C13_PatternCharactersAreLiteral ==
  \A i \in 1..Len(lookups) :
    FirstLookup(i) =>
      (lookups[i][3] <=> LiteralAccepts(CompiledPatterns, lookups[i][2]))


\* C14: a worker that claimed the batch at offset i reads the dump files
\* i .. min(i + 7, N) - 1 and no other for it, and once every worker has
\* returned each dump file has been read exactly once.
C14_BatchDecodedExactlyOnce ==
  /\ \A r \in read_log :
       r[3] \in r[2] .. (Min(r[2] + kSourcesPerBatchThread,
                             Len(dump_files)) - 1)
  /\ AggregationFinished =>
       \A f \in 0..(Len(dump_files) - 1) :
         Cardinality({r \in read_log : r[3] = f}) = 1


\* The batch starting offsets of the dump file list: 0, 7, 14, ... below N.
BatchOffsets ==
  {i \in 0..(Len(dump_files) - 1) : i % kSourcesPerBatchThread = 0}

\* C15: under every interleaving of the workers' fetch_adds no value of
\* the cursor is returned to two workers, every value returned is a batch
\* starting offset, and once every worker has returned every batch starting
\* offset below N has been claimed, by exactly one worker.
C15_EachBatchClaimedOnce ==
  /\ \A c1, c2 \in claimed : c1[2] = c2[2] => c1 = c2
  /\ \A c \in claimed : c[2] % kSourcesPerBatchThread = 0
  /\ AggregationFinished =>
       \A i \in BatchOffsets :
         Cardinality({c \in claimed : c[2] = i}) = 1

\* C15's case: two workers have shared the two batches of fourteen dump
\* files, one each, and have both returned.
C15_Witness ==
  /\ AggregationFinished
  /\ threads = {1}
  /\ Len(dump_files) = 2 * kSourcesPerBatchThread
  /\ \E w1, w2 \in {0, 1} :
       w1 # w2 /\ <<w1, 0>> \in claimed
               /\ <<w2, kSourcesPerBatchThread>> \in claimed


\* The workers inside the lock_guard's scope.
InCriticalSection == {w \in Workers : wpc[w] \in {"merge", "unlock"}}

\* A worker's position is past its acquisition of the mutex.
HasLocked(w) == wpc[w] \in {"merge", "unlock", "done"}

\* C16: at most one worker is merging into the shared graph at any time
\* and it holds the mutex; a worker takes the mutex only after its fetch_add
\* returned a value >= N, and never takes it a second time; the shared graph
\* changes only in a step of the worker holding the mutex; a worker's decode
\* and local merge step changes no shared state (mutex, shared graph,
\* another worker's local graph), the cursor being touched by fetch_add
\* alone.
C16_SharedGraphUnderMutex ==
  /\ [](/\ Cardinality(InCriticalSection) <= 1
        /\ \A w \in InCriticalSection :
             greader_lock = w /\ wi[w] >= Len(dump_files)
        /\ \A w \in Workers :
             wpc[w] = "done" =>
               GraphKeys(local_reader[w]) \subseteq GraphKeys(greader))
  /\ [][/\ greader' # greader =>
             /\ greader_lock # NoOwner
             /\ greader_lock' = greader_lock
             /\ wpc[greader_lock] = "merge"
        /\ \A w \in Workers :
             /\ (greader_lock' = w /\ greader_lock # w) =>
                  /\ wpc[w] = "lock"
                  /\ wi[w] >= Len(dump_files)
                  /\ greader_lock = NoOwner
             /\ HasLocked(w) =>
                  /\ wpc'[w] \in {"merge", "unlock", "done"}
                  /\ greader_lock' = w => greader_lock = w
             /\ (wpc[w] = "read_batch" /\ wpc'[w] # "read_batch") =>
                  /\ UNCHANGED << greader, greader_lock, cnt >>
                  /\ \A v \in Workers \ {w} :
                       local_reader'[v] = local_reader[v]
       ]_vars

\* C16's case: the spawned thread is merging into the shared graph under
\* the mutex while the calling thread, its batches read, waits for it.
C16_Witness ==
  /\ pc = "aggregate"
  /\ threads = {1}
  /\ wpc[1] = "merge" /\ greader_lock = 1
  /\ wpc[0] = "lock"
  /\ local_reader[0] # {} /\ local_reader[1] # {}


\* The export filter has started: LinkAndDump is past the joins.
FilteringBegun ==
  \/ pc \in {"LinkTypes", "LinkFunctions", "LinkGlobalVars", "Dump"}
  \/ pc = "exited" /\ AggregationFinished

\* C17: a declaration has gone to the dumper, a matcher has been queried
\* or a matched set is non-empty only if the filter has started, and the
\* filter has started only if the calling thread and every spawned thread
\* have merged their local graphs into the shared graph, released the mutex
\* and returned; from then on the shared graph does not change.
C17_FilterAfterAggregation ==
  /\ []((\/ SinkCalls("AddLinkableMessageIR") # {}
         \/ lookups # <<>>
         \/ functions_regex_matched_set # {}
         \/ globvars_regex_matched_set # {}) => FilteringBegun)
  /\ [](FilteringBegun =>
          /\ AggregationFinished
          /\ greader_lock = NoOwner
          /\ \A w \in {0} \cup threads :
               GraphKeys(local_reader[w]) \subseteq GraphKeys(greader))
  /\ [][FilteringBegun => greader' = greader]_vars

\* C17's case: after an aggregation by two workers that both read batches,
\* the filter has handed declarations to the dumper and queried a matcher.
C17_Witness ==
  /\ pc = "LinkGlobalVars"
  /\ threads = {1}
  /\ \A w \in {0, 1} : \E r \in read_log : r[1] = w
  /\ SinkCalls("AddLinkableMessageIR") # {}
  /\ functions_regex_matched_set # {}


\* The order of the categories: the types, then the functions, then the
\* global variables.
LinkOrder == << "RecordTypes", "EnumTypes", "FunctionTypes", "BuiltinTypes",
                "PointerTypes", "RvalueReferenceTypes",
                "LvalueReferenceTypes", "ArrayTypes", "QualifiedTypes",
                "Functions", "GlobalVariables" >>

OrderOf(cat) == CHOOSE n \in 1..Len(LinkOrder) : LinkOrder[n] = cat

\* The declarations of a graph the filter lets through.
Surviving(g) ==
  {d \in g : PassesProvenanceFilter(d) /\ PassesSymbolFilter(d)}

\* C18: the declarations go to the dumper in the order of their
\* categories (record, enum, function, builtin, pointer, r-value reference,
\* l-value reference, array, qualified types, functions, global variables);
\* when a declaration has gone to the dumper, every declaration of an
\* earlier category that passes the filters has gone to it before; Dump is
\* the last call made on the dumper, made after every declaration that
\* passes the filters has gone to it.
C18_CategoryOrder ==
  /\ \A m, n \in SinkCalls("AddLinkableMessageIR") :
       m < n => OrderOf(ir_dumper[m][2]) <= OrderOf(ir_dumper[n][2])
  /\ \A n \in SinkCalls("AddLinkableMessageIR") :
       \A e \in Surviving(greader) :
         OrderOf(DeclCat(e)) < OrderOf(ir_dumper[n][2]) =>
           \E m \in SinkCalls("AddLinkableMessageIR") :
             /\ m < n
             /\ <<ir_dumper[m][2], ir_dumper[m][3], ir_dumper[m][4]>> = e
  /\ \A n \in SinkCalls("Dump") :
       /\ n = Len(ir_dumper)
       /\ Surviving(greader) \subseteq Forwarded

\* C18's case: record, enum and builtin types, functions and a global
\* variable have all gone to the dumper, and Dump has been called.
C18_Witness ==
  /\ SinkCalls("Dump") # {}
  /\ {"RecordTypes", "EnumTypes", "BuiltinTypes", "Functions",
      "GlobalVariables"} \subseteq {DeclCat(d) : d \in Forwarded}


\* C19: a declaration the dumper rejects is the last call made on the
\* dumper: no declaration of its category or of a later one follows, Dump
\* is not called, and the process has ended with the diagnostics of
\* LinkDecl, LinkAndDump and main and a non-zero exit status.
C19_RejectionAbortsLink ==
  \A n \in SinkCalls("AddLinkableMessageIR") :
    ~ ir_dumper[n][5] =>
      /\ n = Len(ir_dumper)
      /\ SinkCalls("Dump") = {}
      /\ pc = "exited"
      /\ exit_code # 0
      /\ {"Failed to add element to linked dump", "Failed to link elements",
          "Failed to link and dump elements"} \subseteq errs

\* C19's case: the dumper has rejected the record type while functions
\* that pass the filters were still to come; none of them went to it.
C19_Witness ==
  /\ pc = "exited"
  /\ Len(ir_dumper) > 0
  /\ ir_dumper[Len(ir_dumper)][1] = "AddLinkableMessageIR"
  /\ ir_dumper[Len(ir_dumper)][2] = "RecordTypes"
  /\ ~ ir_dumper[Len(ir_dumper)][5]
  /\ \E e \in Surviving(greader) :
       DeclCat(e) = "Functions" /\ e \notin Forwarded


\* ------------------------------------------------------------------------
\* Aggregation under fair scheduling
\* ------------------------------------------------------------------------

\* The runs under one version script and without export include
\* directories: the aggregation does not depend on either.
InitLive ==
  /\ Init
  /\ so_file = "" /\ version_script = "b.map"
  /\ exported_header_dirs = {} /\ ~ no_filter

\* Every thread that can take a step eventually takes one, and a thread
\* waiting for the mutex gets it once it stays free (std::thread,
\* std::mutex); the calling thread goes on once its joins can return.
Fairness ==
  /\ \A w \in Workers :
       /\ WF_vars(FetchAdd(w))
       /\ WF_vars(ReadBatch(w))
       /\ WF_vars(Lock(w))
       /\ WF_vars(MergeIntoGreader(w))
       /\ WF_vars(Unlock(w))
  /\ WF_vars(Join)

SpecLive == InitLive /\ [][Next]_vars /\ Fairness

\* C20: under fair scheduling, unless a ReadDump fails, every worker of an
\* aggregation eventually returns (it has read a cursor value >= N, merged
\* its local graph and released the mutex), a worker waiting for the mutex
\* eventually holds it, and the calling thread eventually leaves the joins
\* and starts LinkTypes.
C20_AggregationTerminates ==
  /\ (pc = "aggregate") ~> (pc = "LinkTypes" \/ "ReadDump failed" \in errs)
  /\ \A w \in Workers :
       /\ (pc = "aggregate" /\ wpc[w] # "unused")
            ~> (wpc[w] = "done" \/ "ReadDump failed" \in errs)
       /\ (wpc[w] = "lock")
            ~> (greader_lock = w \/ "ReadDump failed" \in errs)

\* C20's case: the calling thread and a spawned thread have each made
\* their fetch_adds, the last of each past the end of the list, have merged
\* and returned, and LinkAndDump is at LinkTypes.
C20_Witness ==
  /\ pc = "LinkTypes"
  /\ link_cat = 1 /\ link_seen = {}
  /\ threads = {1}
  /\ \A w \in {0, 1} :
       /\ wpc[w] = "done"
       /\ wi[w] >= Len(dump_files)
       /\ \E c \in claimed : c[1] = w /\ c[2] < Len(dump_files)
  /\ greader_lock = NoOwner

=============================================================================
